---- MODULE Spec2Model ----
(***************************************************************************)
(* Model of aptos-node/src/network2.rs: the wiring of the applications     *)
(* (consensus, mempool, peer monitoring, storage service) onto the shared  *)
(* ApplicationCollector, the construction of their Client/Events pairs and *)
(* the start-up of one network per NetworkConfig.                          *)
(*                                                                         *)
(* A Rust panic! is modelled by the variable panic: once it is set the     *)
(* process is gone and no action is enabled any more.                      *)
(***************************************************************************)
EXTENDS Integers, Sequences, FiniteSets, TLC

VARIABLES
    node_config,        \* the NodeConfig every function is handed
    peers_and_metadata, \* the Arc<PeersAndMetadata> made by create_peers_and_metadata
    peer_senders,       \* the Arc<OutboundPeerConnections> instance handed to every call
    apps,               \* the ApplicationCollector: the ApplicationConnections added so far
    channels,           \* the bounded queues made by ApplicationConnections::build, by index
    interfaces,         \* per application: what its wiring recipe returned
    network_runtimes,   \* first component of the result of setup_networks
    networks,           \* second component of the result of setup_networks
    setup_log,          \* the steps setup_networks has taken, in order
    pc,                 \* position of node start-up with respect to setup_networks
    panic,              \* NoPanic, or the message of the panic! that ended the process
    policy,             \* what a push onto a full queue does: "block" or "drop_oldest"
    pushed,             \* per ProtocolId: number of messages pushed under it so far
    observed,           \* per application: the messages its NetworkEvents yielded, in order
    last_send,          \* the last send attempted on a Client with its result
    outbound,           \* messages handed to OutboundPeerConnections by successful sends
    direct_build,       \* the arguments of the direct call of build_network_connections
    ended               \* per application: its NetworkEvents has signalled end-of-stream

vars == <<node_config, peers_and_metadata, peer_senders, apps, channels, interfaces,
          network_runtimes, networks, setup_log, pc, panic, policy, pushed, observed,
          last_send, outbound, direct_build, ended>>

wiring_vars == <<apps, channels, interfaces>>
setup_vars == <<network_runtimes, networks, setup_log, pc>>
runtime_vars == <<pushed, observed, last_send, outbound, ended>>
env_vars == <<node_config, peers_and_metadata, peer_senders, policy>>

-----------------------------------------------------------------------------
(* Bounds of the model. *)

MaxFullNodeNetworks == 2   \* longest full_node_networks list drawn
MaxQueueSize == 2          \* largest max_network_channel_size drawn
MaxInstances == 2          \* OutboundPeerConnections instances to draw the shared one from
MaxProtocols == 2          \* longest protocol list handed to a direct build
MaxPush == 3               \* messages pushed in one run
MaxSends == 1              \* successful sends in one run

-----------------------------------------------------------------------------
(* Values. *)

\* Option<T>: the empty sequence is None, a one-element sequence is Some.
None == <<>>
Some(x) == <<x>>
IsSome(o) == Len(o) = 1
Unwrap(o) == o[1]

NoPanic == "NoPanic"

\* What a wiring recipe has returned for an application, if it was called.
NotBuilt == [called |-> FALSE, result |-> None]
Returned(o) == [called |-> TRUE, result |-> o]

NetworkIds == {"Validator", "Vfn", "Public"}

is_validator_network(network_id) == network_id = "Validator"

DIRECT_SEND == <<"ConsensusDirectSendCompressed", "ConsensusDirectSendBcs",
                 "ConsensusDirectSendJson">>

RPC == <<"ConsensusRpcCompressed", "ConsensusRpcBcs", "ConsensusRpcJson">>

Range(s) == {s[i] : i \in 1..Len(s)}

ProtocolIds == Range(DIRECT_SEND) \cup Range(RPC)
                 \cup {"MempoolDirectSend", "PeerMonitoringServiceRpc", "StorageServiceRpc"}

Apps == {"consensus", "mempool", "peer_monitoring", "storage_service"}

Labels == Apps \cup {"custom"}

NetworkConfigs == [network_id : NetworkIds, mutual_authentication : BOOLEAN]

SeqsUpTo(S, n) == UNION {[1..k -> S] : k \in 0..n}

-----------------------------------------------------------------------------
(* NodeConfig: the inputs the code reads from it. *)

\* has_validator_network without the is_validator_network test.
has_validator_network_AnyNetwork(nc) ==
    \E i \in 1..Len(nc.full_node_networks) : TRUE

has_validator_network(nc) ==
    \E i \in 1..Len(nc.full_node_networks) :
        is_validator_network(nc.full_node_networks[i].network_id)

ExtractNetworkConfigsPanics(nc) ==
    /\ IsSome(nc.validator_network)
    /\ ~ Unwrap(nc.validator_network).mutual_authentication

\* extract_network_configs with the validator_network entry put in front of
\* the full node networks.
extract_network_configs_ValidatorFirst(nc) ==
    IF IsSome(nc.validator_network)
    THEN <<Unwrap(nc.validator_network)>> \o nc.full_node_networks
    ELSE nc.full_node_networks

extract_network_configs(nc) ==
    IF IsSome(nc.validator_network)
    THEN Append(nc.full_node_networks, Unwrap(nc.validator_network))
    ELSE nc.full_node_networks

\* extract_network_ids without the validator_network entry.
extract_network_ids_FullNodeOnly(nc) ==
    [i \in 1..Len(nc.full_node_networks) |-> nc.full_node_networks[i].network_id]

extract_network_ids(nc) ==
    LET out == [i \in 1..Len(nc.full_node_networks) |-> nc.full_node_networks[i].network_id]
    IN  IF IsSome(nc.validator_network)
        THEN Append(out, Unwrap(nc.validator_network).network_id)
        ELSE out

PeersAndMetadata_new(network_ids) == [network_ids |-> Range(network_ids)]

create_peers_and_metadata(nc) == PeersAndMetadata_new(extract_network_ids(nc))

-----------------------------------------------------------------------------
(* The collaborators of build_network_connections. *)

\* ApplicationConnections::build: a fresh bounded queue; the sender half goes into
\* the ApplicationConnections, the receiver half is returned next to it.
ApplicationConnections_build(protocol_id, queue_size, counter_label, chans) ==
    LET c == Len(chans) + 1
    IN  [app_con  |-> [protocol_id |-> protocol_id, counter_label |-> counter_label,
                       sender |-> c],
         receiver |-> c,
         channels |-> Append(chans, [capacity |-> queue_size, queue |-> <<>>,
                                    closed |-> FALSE])]

Registered(collector, protocol_id) ==
    \E i \in 1..Len(collector) : collector[i].protocol_id = protocol_id

\* ApplicationCollector::add without the test for an earlier registration.
ApplicationCollector_add_NoCheck(collector, app_con) ==
    [panic |-> NoPanic, apps |-> Append(collector, app_con)]

\* ApplicationCollector::add: a second registration of a ProtocolId is fatal.
ApplicationCollector_add(collector, app_con) ==
    IF Registered(collector, app_con.protocol_id)
    THEN [panic |-> "duplicate protocol registration", apps |-> collector]
    ELSE [panic |-> NoPanic, apps |-> Append(collector, app_con)]

new_single_source(receiver) == [kind |-> "single", receivers |-> <<receiver>>]

new_multi_source(receivers) == [kind |-> "multi", receivers |-> receivers]

NetworkSender_new(network_id, senders) ==
    [network_id |-> network_id, peer_senders |-> senders]

NetworkClient_new(direct_send, rpc, network_senders, pam) ==
    [direct_send_protocols_and_preferences |-> direct_send,
     rpc_protocols_and_preferences |-> rpc,
     network_senders |-> network_senders,
     peers_and_metadata |-> pam]

NetworkEvents_new(network_source, senders) ==
    [network_source |-> network_source, peer_senders |-> senders]

\* ApplicationNetworkInterfaces::new handing the two protocol lists to the Client
\* in the wrong order.
ApplicationNetworkInterfaces_new_SwappedLists(direct_send, rpc, pam, network_source, network_ids, senders) ==
    LET network_senders == [n \in Range(network_ids) |-> NetworkSender_new(n, senders)]
    IN  [network_client |-> NetworkClient_new(rpc, direct_send, network_senders, pam),
         network_events |-> NetworkEvents_new(network_source, senders)]

\* ApplicationNetworkInterfaces::new with a sender for the public network put in
\* whatever the list of network ids holds.
ApplicationNetworkInterfaces_new_DefaultSender(direct_send, rpc, pam, network_source, network_ids, senders) ==
    LET network_senders == [n \in Range(network_ids) \cup {"Public"} |->
                               NetworkSender_new(n, senders)]
    IN  [network_client |-> NetworkClient_new(direct_send, rpc, network_senders, pam),
         network_events |-> NetworkEvents_new(network_source, senders)]

\* ApplicationNetworkInterfaces::new: inserting into the HashMap in list order
\* leaves one sender per distinct network id.
ApplicationNetworkInterfaces_new(direct_send, rpc, pam, network_source, network_ids, senders) ==
    LET network_senders == [n \in Range(network_ids) |-> NetworkSender_new(n, senders)]
    IN  [network_client |-> NetworkClient_new(direct_send, rpc, network_senders, pam),
         network_events |-> NetworkEvents_new(network_source, senders)]

-----------------------------------------------------------------------------
(* build_network_connections. *)

\* The loop building every queue one message wider than the queue_size handed in.
RECURSIVE BuildLoop_WiderQueue(_, _, _, _)
BuildLoop_WiderQueue(protocols, queue_size, counter_label, st) ==
    IF protocols = <<>> \/ st.panic # NoPanic
    THEN st
    ELSE LET b == ApplicationConnections_build(Head(protocols), queue_size + 1,
                                               counter_label, st.channels)
             a == ApplicationCollector_add(st.apps, b.app_con)
         IN  BuildLoop_WiderQueue(Tail(protocols), queue_size, counter_label,
                                  [panic     |-> a.panic,
                                   apps      |-> a.apps,
                                   channels  |-> b.channels,
                                   receivers |-> Append(st.receivers, b.receiver)])

\* One of its two loops: st carries panic, apps, channels and receivers; a panic
\* inside apps.add leaves the rest of the list untouched.
RECURSIVE BuildLoop(_, _, _, _)
BuildLoop(protocols, queue_size, counter_label, st) ==
    IF protocols = <<>> \/ st.panic # NoPanic
    THEN st
    ELSE LET b == ApplicationConnections_build(Head(protocols), queue_size, counter_label,
                                               st.channels)
             a == ApplicationCollector_add(st.apps, b.app_con)
         IN  BuildLoop(Tail(protocols), queue_size, counter_label,
                       [panic     |-> a.panic,
                        apps      |-> a.apps,
                        channels  |-> b.channels,
                        receivers |-> Append(st.receivers, b.receiver)])

\* The choice of the NetworkSource without the panic on an empty receiver list.
MakeNetworkSource_NoEmptyCheck(receivers) ==
    IF Len(receivers) = 1
    THEN [panic |-> NoPanic, source |-> Some(new_single_source(receivers[1]))]
    ELSE [panic |-> NoPanic, source |-> Some(new_multi_source(receivers))]

\* The choice of the NetworkSource that takes the single-receiver form whenever
\* there is a receiver, over the first receiver only.
MakeNetworkSource_FirstReceiverOnly(receivers) ==
    IF Len(receivers) >= 1
    THEN [panic |-> NoPanic, source |-> Some(new_single_source(receivers[1]))]
    ELSE [panic |-> "built no receivers", source |-> None]

\* The choice of the NetworkSource from the receivers collected by the two loops.
MakeNetworkSource(receivers) ==
    IF Len(receivers) = 1
    THEN [panic |-> NoPanic, source |-> Some(new_single_source(receivers[1]))]
    ELSE IF Len(receivers) > 1
    THEN [panic |-> NoPanic, source |-> Some(new_multi_source(receivers))]
    ELSE [panic |-> "built no receivers", source |-> None]

\* build_network_connections with a receivers vector that is not fresh for the
\* build: it starts with the receivers of every queue made before.
build_network_connections_SharedReceivers(direct_send_protocols, rpc_protocols, queue_size, counter_label, pam, collector, chans, network_ids, senders) ==
    LET st0 == [panic |-> NoPanic, apps |-> collector, channels |-> chans,
                receivers |-> [i \in 1..Len(chans) |-> i]]
        st1 == BuildLoop(direct_send_protocols, queue_size, counter_label, st0)
        st2 == BuildLoop(rpc_protocols, queue_size, counter_label, st1)
        ns == MakeNetworkSource(st2.receivers)
    IN  IF st2.panic # NoPanic
        THEN [panic |-> st2.panic, apps |-> st2.apps, channels |-> st2.channels,
              result |-> None]
        ELSE IF ns.panic # NoPanic
        THEN [panic |-> ns.panic, apps |-> st2.apps, channels |-> st2.channels,
              result |-> None]
        ELSE [panic |-> NoPanic, apps |-> st2.apps, channels |-> st2.channels,
              result |-> Some(ApplicationNetworkInterfaces_new(
                             direct_send_protocols, rpc_protocols, pam,
                             Unwrap(ns.source), network_ids, senders))]

\* build_network_connections running the request/response loop before the
\* direct-send loop.
build_network_connections_RpcFirst(direct_send_protocols, rpc_protocols, queue_size, counter_label, pam, collector, chans, network_ids, senders) ==
    LET st0 == [panic |-> NoPanic, apps |-> collector, channels |-> chans,
                receivers |-> <<>>]
        st1 == BuildLoop(rpc_protocols, queue_size, counter_label, st0)
        st2 == BuildLoop(direct_send_protocols, queue_size, counter_label, st1)
        ns == MakeNetworkSource(st2.receivers)
    IN  IF st2.panic # NoPanic
        THEN [panic |-> st2.panic, apps |-> st2.apps, channels |-> st2.channels,
              result |-> None]
        ELSE IF ns.panic # NoPanic
        THEN [panic |-> ns.panic, apps |-> st2.apps, channels |-> st2.channels,
              result |-> None]
        ELSE [panic |-> NoPanic, apps |-> st2.apps, channels |-> st2.channels,
              result |-> Some(ApplicationNetworkInterfaces_new(
                             direct_send_protocols, rpc_protocols, pam,
                             Unwrap(ns.source), network_ids, senders))]

\* The result: the panic (if any), the collector and queues as the call leaves
\* them, and the ApplicationNetworkInterfaces returned (None after a panic).
build_network_connections(direct_send_protocols, rpc_protocols, queue_size, counter_label, pam, collector, chans, network_ids, senders) ==
    LET st0 == [panic |-> NoPanic, apps |-> collector, channels |-> chans,
                receivers |-> <<>>]
        st1 == BuildLoop(direct_send_protocols, queue_size, counter_label, st0)
        st2 == BuildLoop(rpc_protocols, queue_size, counter_label, st1)
        ns == MakeNetworkSource(st2.receivers)
    IN  IF st2.panic # NoPanic
        THEN [panic |-> st2.panic, apps |-> st2.apps, channels |-> st2.channels,
              result |-> None]
        ELSE IF ns.panic # NoPanic
        THEN [panic |-> ns.panic, apps |-> st2.apps, channels |-> st2.channels,
              result |-> None]
        ELSE [panic |-> NoPanic, apps |-> st2.apps, channels |-> st2.channels,
              result |-> Some(ApplicationNetworkInterfaces_new(
                             direct_send_protocols, rpc_protocols, pam,
                             Unwrap(ns.source), network_ids, senders))]

-----------------------------------------------------------------------------
(* The wiring recipes. *)

\* What a recipe leaves behind: the collector and queues as built, and either the
\* panic or the interface for the application.
Wire(app, r) ==
    /\ apps' = r.apps
    /\ channels' = r.channels
    /\ panic' = r.panic
    /\ interfaces' = IF r.panic = NoPanic
                     THEN [interfaces EXCEPT ![app] = Returned(r.result)]
                     ELSE interfaces

consensus_network_connections ==
    /\ panic = NoPanic
    /\ IF ~ has_validator_network(node_config)
       THEN /\ interfaces' = [interfaces EXCEPT !["consensus"] = Returned(None)]
            /\ UNCHANGED <<apps, channels, panic>>
       ELSE Wire("consensus",
                 build_network_connections(DIRECT_SEND, RPC,
                     node_config.max_network_channel_size["consensus"], "consensus",
                     peers_and_metadata, apps, channels,
                     extract_network_ids(node_config), peer_senders))
    /\ UNCHANGED <<env_vars, setup_vars, runtime_vars, direct_build>>

peer_monitoring_network_connections ==
    /\ panic = NoPanic
    /\ Wire("peer_monitoring",
            build_network_connections(<<>>, <<"PeerMonitoringServiceRpc">>,
                node_config.max_network_channel_size["peer_monitoring"], "peer_monitoring",
                peers_and_metadata, apps, channels,
                extract_network_ids(node_config), peer_senders))
    /\ UNCHANGED <<env_vars, setup_vars, runtime_vars, direct_build>>

storage_service_network_connections ==
    /\ panic = NoPanic
    /\ Wire("storage_service",
            build_network_connections(<<>>, <<"StorageServiceRpc">>,
                node_config.max_network_channel_size["storage_service"], "storage_service",
                peers_and_metadata, apps, channels,
                extract_network_ids(node_config), peer_senders))
    /\ UNCHANGED <<env_vars, setup_vars, runtime_vars, direct_build>>

mempool_network_connections ==
    /\ panic = NoPanic
    /\ Wire("mempool",
            build_network_connections(<<"MempoolDirectSend">>, <<>>,
                node_config.max_network_channel_size["mempool"], "mempool",
                peers_and_metadata, apps, channels,
                extract_network_ids(node_config), peer_senders))
    /\ UNCHANGED <<env_vars, setup_vars, runtime_vars, direct_build>>

\* build_network_connections called with protocol lists of the caller's choosing.
BuildDirectWith(ds, rpc, queue_size) ==
    /\ panic = NoPanic
    /\ ~ interfaces["custom"].called
    /\ Wire("custom",
            build_network_connections(ds, rpc, queue_size, "custom",
                peers_and_metadata, apps, channels,
                extract_network_ids(node_config), peer_senders))
    /\ direct_build' = Some([direct_send_protocols |-> ds, rpc_protocols |-> rpc,
                             apps |-> apps])
    /\ UNCHANGED <<env_vars, setup_vars, runtime_vars>>

\* The protocols direct builds draw from: one of each recipe's kind.
DirectProtocols ==
    {"ConsensusDirectSendBcs", "ConsensusRpcBcs", "MempoolDirectSend", "StorageServiceRpc"}

ProtocolLists ==
    {pl \in SeqsUpTo(DirectProtocols, MaxProtocols) \X SeqsUpTo(DirectProtocols, MaxProtocols) :
        Len(pl[1]) + Len(pl[2]) <= MaxProtocols}

BuildDirect ==
    \E pl \in ProtocolLists : BuildDirectWith(pl[1], pl[2], MaxQueueSize)

-----------------------------------------------------------------------------
(* setup_networks. *)

as_str(network_id) ==
    CASE network_id = "Validator" -> <<"V", "a", "l", "i", "d", "a", "t", "o", "r">>
      [] network_id = "Vfn"       -> <<"V", "f", "n">>
      [] network_id = "Public"    -> <<"P", "u", "b", "l", "i", "c">>

Take(s, n) == SubSeq(s, 1, IF Len(s) < n THEN Len(s) ELSE n)

create_network_runtime(network_config) ==
    [thread_name |-> <<"network-">> \o Take(as_str(network_config.network_id), 3),
     network_id  |-> network_config.network_id]

\* NetworkBuilder::create followed by NetworkBuilder::build on the handle of the
\* runtime at index handle.
NetworkBuilder_create(network_config, pam, senders, handle) ==
    [network_config |-> network_config, peers_and_metadata |-> pam,
     peer_senders |-> senders, created_on |-> handle, state |-> "HandshakeBuilt"]

NetworkBuilder_build(network_builder, handle) ==
    [network_builder EXCEPT !.state = "Started"] @@ [started_on |-> handle]

\* The loop of setup_networks handing every builder the handle of the first
\* runtime instead of the runtime created for its network.
RECURSIVE SetupLoop_FirstRuntimeHandle(_, _, _, _, _)
SetupLoop_FirstRuntimeHandle(network_configs, i, pam, senders, st) ==
    IF i > Len(network_configs)
    THEN st
    ELSE LET runtime == create_network_runtime(network_configs[i])
             handle  == 1
             created == NetworkBuilder_create(network_configs[i], pam, senders, handle)
             built   == NetworkBuilder_build(created, handle)
         IN  SetupLoop_FirstRuntimeHandle(network_configs, i + 1, pam, senders,
                       [network_runtimes |-> Append(st.network_runtimes, runtime),
                        networks |-> Append(st.networks, built),
                        log      |-> st.log \o <<<<"RuntimeCreated", i>>,
                                                 <<"HandshakeBuilt", i>>,
                                                 <<"Started", i>>>>])

\* The loop of setup_networks over network_configs, from index i on.
RECURSIVE SetupLoop(_, _, _, _, _)
SetupLoop(network_configs, i, pam, senders, st) ==
    IF i > Len(network_configs)
    THEN st
    ELSE LET runtime == create_network_runtime(network_configs[i])
             handle  == Len(st.network_runtimes) + 1
             created == NetworkBuilder_create(network_configs[i], pam, senders, handle)
             built   == NetworkBuilder_build(created, handle)
         IN  SetupLoop(network_configs, i + 1, pam, senders,
                       [network_runtimes |-> Append(st.network_runtimes, runtime),
                        networks |-> Append(st.networks, built),
                        log      |-> st.log \o <<<<"RuntimeCreated", i>>,
                                                 <<"HandshakeBuilt", i>>,
                                                 <<"Started", i>>>>])

setup_networks ==
    /\ panic = NoPanic
    /\ pc = "start"
    /\ IF ExtractNetworkConfigsPanics(node_config)
       THEN /\ panic' = "Validator networks must always have mutual_authentication enabled!"
            /\ UNCHANGED <<network_runtimes, networks, setup_log, pc>>
       ELSE LET st == SetupLoop(extract_network_configs(node_config), 1,
                                peers_and_metadata, peer_senders,
                                [network_runtimes |-> <<>>, networks |-> <<>>,
                                 log |-> <<>>])
            IN  /\ network_runtimes' = st.network_runtimes
                /\ networks' = st.networks
                /\ setup_log' = st.log
                /\ pc' = "networks_started"
                /\ UNCHANGED panic
    /\ UNCHANGED <<env_vars, wiring_vars, runtime_vars, direct_build>>

-----------------------------------------------------------------------------
(* Node configurations drawn, and the state after construction. *)

ValidatorNetworkConfigs == {c \in NetworkConfigs : is_validator_network(c.network_id)}

UniformQueueSize(n) == [a \in Apps |-> n]

NodeConfigs ==
    [full_node_networks : SeqsUpTo(NetworkConfigs, MaxFullNodeNetworks),
     validator_network : {None} \cup {Some(c) : c \in ValidatorNetworkConfigs},
     max_network_channel_size : {UniformQueueSize(MaxQueueSize)}]

InitWith(configs, instances, policies) ==
    /\ node_config \in configs
    /\ peers_and_metadata = create_peers_and_metadata(node_config)
    /\ peer_senders \in instances
    /\ policy \in policies
    /\ apps = <<>>
    /\ channels = <<>>
    /\ interfaces = [l \in Labels |-> NotBuilt]
    /\ network_runtimes = <<>>
    /\ networks = <<>>
    /\ setup_log = <<>>
    /\ pc = "start"
    /\ panic = NoPanic
    /\ pushed = [p \in ProtocolIds |-> 0]
    /\ observed = [l \in Labels |-> <<>>]
    /\ last_send = None
    /\ outbound = <<>>
    /\ direct_build = None
    /\ ended = [l \in Labels |-> FALSE]

Init == InitWith(NodeConfigs, 1..MaxInstances, {"block"})

Recipes ==
    \/ consensus_network_connections
    \/ peer_monitoring_network_connections
    \/ storage_service_network_connections
    \/ mempool_network_connections

Next ==
    \/ Recipes
    \/ setup_networks

Spec == Init /\ [][Next]_vars

-----------------------------------------------------------------------------
(* Vocabulary of the properties. *)

\* Every network the node configuration declares, whichever field declares it.
ConfiguredNetworks(nc) ==
    Range(nc.full_node_networks)
        \cup (IF IsSome(nc.validator_network) THEN {Unwrap(nc.validator_network)} ELSE {})

ConfiguredNetworkIds(nc) == {c.network_id : c \in ConfiguredNetworks(nc)}

DeclaresValidatorClass(nc) ==
    \E c \in ConfiguredNetworks(nc) : is_validator_network(c.network_id)

UnauthenticatedValidatorClass(nc) ==
    \E c \in ConfiguredNetworks(nc) :
        is_validator_network(c.network_id) /\ ~ c.mutual_authentication

\* nc with mutual authentication switched on for every validator-class network.
Authenticated(c) ==
    IF is_validator_network(c.network_id)
    THEN [c EXCEPT !.mutual_authentication = TRUE]
    ELSE c

WithMutualAuthentication(nc) ==
    [nc EXCEPT
       !.full_node_networks = [i \in 1..Len(nc.full_node_networks) |->
                                  Authenticated(nc.full_node_networks[i])],
       !.validator_network = IF IsSome(nc.validator_network)
                             THEN Some(Authenticated(Unwrap(nc.validator_network)))
                             ELSE None]

ConsensusProtocols == Range(DIRECT_SEND) \cup Range(RPC)

LabelledEntries(collector, label) ==
    {i \in 1..Len(collector) : collector[i].counter_label = label}

-----------------------------------------------------------------------------
(* C1 *)

\* C1 (as claimed): a node configuration with a validator-class network whose mutual
\* authentication is off, in validator_network or in full_node_networks, never gets
\* through setup_networks: no runtime is created, no network built or started; and
\* with the flag switched on extract_network_configs no longer panics.
C1_UnauthenticatedValidatorAborts ==
    UnauthenticatedValidatorClass(node_config) =>
        /\ pc = "start"
        /\ network_runtimes = <<>>
        /\ networks = <<>>
        /\ setup_log = <<>>
        /\ ~ ExtractNetworkConfigsPanics(WithMutualAuthentication(node_config))

-----------------------------------------------------------------------------
(* C2 *)

\* C2: when the node configuration declares no validator-class network, a call of
\* consensus_network_connections returns None and changes neither the
\* ApplicationCollector nor the set of queues.
C2_AbsentLeavesCollectorUnchanged ==
    [][(consensus_network_connections /\ ~ DeclaresValidatorClass(node_config)) =>
           /\ interfaces'["consensus"] = Returned(None)
           /\ apps' = apps
           /\ channels' = channels
           /\ panic' = NoPanic]_vars

\* The case of C2 after other applications have registered their queues.
C2_Witness ==
    /\ ~ DeclaresValidatorClass(node_config)
    /\ Len(node_config.full_node_networks) > 0
    /\ interfaces["consensus"] = Returned(None)
    /\ Len(apps) = 3
    /\ LabelledEntries(apps, "consensus") = {}

-----------------------------------------------------------------------------
(* C3 *)

\* C3 (as claimed): whenever the node configuration declares a validator-class
\* network, also when only validator_network declares it, a call of
\* consensus_network_connections returns an interface and every consensus protocol
\* has a queue registered in the collector.
C3_ValidatorClassGetsInterface ==
    (interfaces["consensus"].called /\ DeclaresValidatorClass(node_config)) =>
        /\ IsSome(interfaces["consensus"].result)
        /\ \A p \in ConsensusProtocols : Registered(apps, p)

-----------------------------------------------------------------------------
(* C7 *)

\* C7: every Client built holds exactly one sender per network id of the node
\* configuration (full_node_networks and validator_network), each sender bound to
\* the network id it is filed under and to the one OutboundPeerConnections
\* instance handed to the recipe.
C7_OneSenderPerNetwork ==
    \A l \in Labels :
        IsSome(interfaces[l].result) =>
            LET senders == Unwrap(interfaces[l].result).network_client.network_senders
            IN  /\ DOMAIN senders = ConfiguredNetworkIds(node_config)
                /\ \A n \in DOMAIN senders :
                       /\ senders[n].network_id = n
                       /\ senders[n].peer_senders = peer_senders

\* A Client built on a configuration with two full node networks and a validator
\* network, all of different ids, on the second OutboundPeerConnections instance.
C7_Witness ==
    /\ IsSome(node_config.validator_network)
    /\ Cardinality(ConfiguredNetworkIds(node_config)) = 3
    /\ peer_senders = 2
    /\ IsSome(interfaces["mempool"].result)
    /\ Cardinality(DOMAIN Unwrap(interfaces["mempool"].result).network_client.network_senders) = 3

-----------------------------------------------------------------------------
(* The wiring recipes together with direct builds, on a few node configurations. *)

BuildConfigs ==
    {nc \in NodeConfigs :
        /\ nc.validator_network = None
        /\ nc.full_node_networks \in {<<>>,
               <<[network_id |-> "Validator", mutual_authentication |-> TRUE]>>}}

InitBuild == InitWith(BuildConfigs, {1}, {"block"})

NextBuild ==
    \/ Recipes
    \/ BuildDirect

SpecBuild == InitBuild /\ [][NextBuild]_vars

-----------------------------------------------------------------------------
(* C4 *)

DirectBuildOf(ds, rpc) ==
    /\ IsSome(direct_build)
    /\ Unwrap(direct_build).direct_send_protocols = ds
    /\ Unwrap(direct_build).rpc_protocols = rpc

DirectBuildSize ==
    Len(Unwrap(direct_build).direct_send_protocols) + Len(Unwrap(direct_build).rpc_protocols)

\* C4: a build with no direct-send and no request/response protocol panics, returns
\* no interface and leaves the ApplicationCollector as it found it.
C4_ZeroProtocolsAbort ==
    DirectBuildOf(<<>>, <<>>) =>
        /\ panic = "built no receivers"
        /\ interfaces["custom"] = NotBuilt
        /\ apps = Unwrap(direct_build).apps
        /\ LabelledEntries(apps, "custom") = {}

\* The zero-protocol build has panicked on a collector that other applications had
\* filled before.
C4_Witness ==
    /\ DirectBuildOf(<<>>, <<>>)
    /\ panic = "built no receivers"
    /\ Len(apps) >= 2

-----------------------------------------------------------------------------
(* C5 *)

\* What C5 asks of a build: it returned a Client whose two protocol lists are the
\* lists handed in.
BuiltExactly ==
    /\ IsSome(interfaces["custom"].result)
    /\ LET client == Unwrap(interfaces["custom"].result).network_client
       IN  /\ client.direct_send_protocols_and_preferences
                  = Unwrap(direct_build).direct_send_protocols
           /\ client.rpc_protocols_and_preferences = Unwrap(direct_build).rpc_protocols

\* C5 (as claimed): every build with at least one protocol in its two lists
\* succeeds and returns a Client declaring exactly those lists.
C5_EveryNonEmptyBuildSucceeds ==
    (IsSome(direct_build) /\ DirectBuildSize >= 1) => BuiltExactly

NoRepeat(s) == \A i, j \in 1..Len(s) : i # j => s[i] # s[j]

\* The protocols of the direct build are pairwise different and none of them was
\* registered in the collector the build was handed.
DirectBuildFresh ==
    LET b == Unwrap(direct_build)
        protocols == b.direct_send_protocols \o b.rpc_protocols
    IN  /\ NoRepeat(protocols)
        /\ \A p \in Range(protocols) : ~ Registered(b.apps, p)

\* C5 (amended): every build with at least one protocol, whose protocols are
\* pairwise different and not yet registered in the collector, succeeds and
\* returns a Client declaring exactly the two lists handed in, nothing added,
\* removed or moved between them.
C5_FreshNonEmptyBuildSucceeds ==
    (IsSome(direct_build) /\ DirectBuildSize >= 1 /\ DirectBuildFresh) => BuiltExactly

\* A build with one direct-send and one request/response protocol has returned its
\* Client next to the interface of another application.
C5_Witness ==
    /\ panic = NoPanic
    /\ IsSome(direct_build)
    /\ DirectBuildFresh
    /\ IsSome(interfaces["custom"].result)
    /\ IsSome(interfaces["mempool"].result)
    /\ LET client == Unwrap(interfaces["custom"].result).network_client
       IN  /\ Len(client.direct_send_protocols_and_preferences) = 1
           /\ Len(client.rpc_protocols_and_preferences) = 1

-----------------------------------------------------------------------------
(* C6 *)

\* C6: whatever recipes and builds have run on the shared collector, no ProtocolId
\* is registered twice and no queue serves two registrations; a build that meets
\* a registered ProtocolId has panicked without adding the second registration.
C6_OneRegistrationPerProtocol ==
    \A i, j \in 1..Len(apps) :
        i # j => /\ apps[i].protocol_id # apps[j].protocol_id
                 /\ apps[i].sender # apps[j].sender

\* A second registration was attempted and the process has panicked on it.
C6_Witness ==
    /\ panic = "duplicate protocol registration"
    /\ Len(apps) >= 1
    /\ Len(channels) = Len(apps) + 1

-----------------------------------------------------------------------------
(* Sending on a Client. *)

\* NetworkClient::send_to_peer: the sender is looked up by the network id of the
\* destination; a network without a sender is reported to the caller.
NetworkClient_send(client, network_id) ==
    IF network_id \in DOMAIN client.network_senders
    THEN "Ok"
    ELSE "NoReachableNetwork"

Send(l, network_id) ==
    /\ panic = NoPanic
    /\ IsSome(interfaces[l].result)
    /\ LET client == Unwrap(interfaces[l].result).network_client
           result == NetworkClient_send(client, network_id)
       IN  /\ result = "Ok" => Len(outbound) < MaxSends
           /\ last_send' = Some([app |-> l, network_id |-> network_id, result |-> result])
           /\ outbound' = IF result = "Ok"
                          THEN Append(outbound, [app |-> l,
                                                 sender |-> client.network_senders[network_id]])
                          ELSE outbound
    /\ UNCHANGED <<env_vars, wiring_vars, setup_vars, panic, pushed, observed, direct_build,
                   ended>>

NextSend ==
    \/ Recipes
    \/ \E l \in Apps, network_id \in NetworkIds : Send(l, network_id)

SpecSend == InitBuild /\ [][NextSend]_vars

-----------------------------------------------------------------------------
(* C8 *)

\* The protocol each single-protocol recipe registers.
OwnProtocol(l) ==
    CASE l = "mempool"         -> "MempoolDirectSend"
      [] l = "peer_monitoring" -> "PeerMonitoringServiceRpc"
      [] l = "storage_service" -> "StorageServiceRpc"

\* C8: on a node configuration without any network the recipes do not abort: an
\* application whose queue is registered has its interface, whose Client has an
\* empty network-to-sender mapping; every send on it has returned the
\* no-reachable-network error, without a panic and with nothing enqueued.
C8_NoNetworksClientCannotSend ==
    ConfiguredNetworks(node_config) = {} =>
        /\ \A l \in Apps \ {"consensus"} :
               Registered(apps, OwnProtocol(l)) => IsSome(interfaces[l].result)
        /\ \A l \in Apps :
               IsSome(interfaces[l].result) =>
                   DOMAIN Unwrap(interfaces[l].result).network_client.network_senders = {}
        /\ IsSome(last_send) => Unwrap(last_send).result = "NoReachableNetwork"
        /\ outbound = <<>>
        /\ panic \in {NoPanic, "duplicate protocol registration"}

\* A send was attempted on a Client built without any network.
C8_Witness ==
    /\ ConfiguredNetworks(node_config) = {}
    /\ panic = NoPanic
    /\ IsSome(last_send)
    /\ Unwrap(last_send).app = "mempool"
    /\ Unwrap(last_send).result = "NoReachableNetwork"

-----------------------------------------------------------------------------
(* Delivery into the queues and the consumption of a NetworkSource. *)

\* The queue the router finds for a ProtocolId in the ApplicationCollector.
Route(collector, protocol_id) ==
    collector[CHOOSE i \in 1..Len(collector) : collector[i].protocol_id = protocol_id].sender

TotalPushed == LET RECURSIVE Sum(_)
                   Sum(S) == IF S = {} THEN 0
                             ELSE LET p == CHOOSE x \in S : TRUE
                                  IN  pushed[p] + Sum(S \ {p})
               IN  Sum(ProtocolIds)

\* A push onto a bounded queue: room is taken if there is some; on a full queue
\* the push stays suspended under the blocking policy and displaces the oldest
\* message under the drop-oldest policy.
CanPush(ch) == Len(ch.queue) < ch.capacity \/ policy = "drop_oldest"

Sender_push(ch, msg) ==
    IF Len(ch.queue) < ch.capacity
    THEN [ch EXCEPT !.queue = Append(@, msg)]
    ELSE [ch EXCEPT !.queue = Append(Tail(@), msg)]

\* The receiver end yielding the message at the tail of the queue.
Receiver_pop_Newest(ch) ==
    [msg |-> ch.queue[Len(ch.queue)],
     channel |-> [ch EXCEPT !.queue = SubSeq(@, 1, Len(@) - 1)]]

\* The receiver end of a queue yields its oldest message.
Receiver_pop(ch) ==
    [msg |-> Head(ch.queue), channel |-> [ch EXCEPT !.queue = Tail(@)]]

\* The transport delivers a message tagged protocol_id: the router pushes it onto
\* the queue registered for that protocol.
Push(protocol_id) ==
    /\ panic = NoPanic
    /\ TotalPushed < MaxPush
    /\ Registered(apps, protocol_id)
    /\ LET c == Route(apps, protocol_id)
           msg == [protocol_id |-> protocol_id, seq |-> pushed[protocol_id] + 1]
       IN  /\ ~ channels[c].closed
           /\ CanPush(channels[c])
           /\ channels' = [channels EXCEPT ![c] = Sender_push(@, msg)]
    /\ pushed' = [pushed EXCEPT ![protocol_id] = @ + 1]
    /\ UNCHANGED <<env_vars, apps, interfaces, setup_vars, panic, observed, last_send,
                   outbound, direct_build, ended>>

\* The application polls its NetworkEvents: any receiver of the source that has a
\* message yields its oldest one.
Poll(l) ==
    /\ panic = NoPanic
    /\ IsSome(interfaces[l].result)
    /\ LET source == Unwrap(interfaces[l].result).network_events.network_source
       IN  \E k \in 1..Len(source.receivers) :
               LET c == source.receivers[k]
               IN  /\ channels[c].queue # <<>>
                   /\ LET popped == Receiver_pop(channels[c])
                      IN  /\ channels' = [channels EXCEPT ![c] = popped.channel]
                          /\ observed' = [observed EXCEPT ![l] = Append(@, popped.msg)]
    /\ UNCHANGED <<env_vars, apps, interfaces, setup_vars, panic, pushed, last_send,
                   outbound, direct_build, ended>>

\* A node with one validator-class network, so that consensus gets its interface.
RunConfigs ==
    [full_node_networks : {<<[network_id |-> "Validator", mutual_authentication |-> TRUE]>>},
     validator_network : {None},
     max_network_channel_size : {UniformQueueSize(n) : n \in 1..MaxQueueSize}]

InitRun == InitWith(RunConfigs, {1}, {"block", "drop_oldest"})

\* Consensus (six protocols merged into one source) next to two applications of
\* one protocol each.
NextRun ==
    \/ consensus_network_connections
    \/ mempool_network_connections
    \/ storage_service_network_connections
    \/ \E protocol_id \in ProtocolIds : Push(protocol_id)
    \/ \E l \in Apps : Poll(l)

SpecRun == InitRun /\ [][NextRun]_vars

-----------------------------------------------------------------------------
(* C9 *)

DeclaredProtocols(l) ==
    LET client == Unwrap(interfaces[l].result).network_client
    IN  Range(client.direct_send_protocols_and_preferences)
            \cup Range(client.rpc_protocols_and_preferences)

\* C9: an application's source never yields a message pushed under a protocol the
\* application did not declare; its source is made of exactly the receivers of
\* the queues registered for its own protocols.
C9_NoCrossTalk ==
    \A l \in Apps :
        /\ \A i \in 1..Len(observed[l]) :
               /\ IsSome(interfaces[l].result)
               /\ observed[l][i].protocol_id \in DeclaredProtocols(l)
        /\ IsSome(interfaces[l].result) =>
               Range(Unwrap(interfaces[l].result).network_events.network_source.receivers)
                   = {Route(apps, p) : p \in DeclaredProtocols(l)}

\* Two applications have each consumed a message while a third one's message is
\* still queued.
C9_Witness ==
    /\ Len(observed["consensus"]) = 1
    /\ Len(observed["mempool"]) = 1
    /\ IsSome(interfaces["storage_service"].result)
    /\ pushed["StorageServiceRpc"] = 1

-----------------------------------------------------------------------------
(* C10 *)

\* C10: the messages of one protocol are yielded by the application's source in
\* the order they were pushed, whatever was pushed to and yielded from the other
\* queues in between.
C10_PerProtocolFifo ==
    \A l \in Apps :
        \A i, j \in 1..Len(observed[l]) :
            (i < j /\ observed[l][i].protocol_id = observed[l][j].protocol_id)
                => observed[l][i].seq < observed[l][j].seq

\* Two messages of one consensus protocol were yielded in push order with a
\* message of another consensus protocol, pushed after both, yielded between them.
C10_Witness ==
    /\ Len(observed["consensus"]) = 3
    /\ observed["consensus"][1] = [protocol_id |-> "ConsensusRpcBcs", seq |-> 1]
    /\ observed["consensus"][2].protocol_id = "ConsensusDirectSendBcs"
    /\ observed["consensus"][3] = [protocol_id |-> "ConsensusRpcBcs", seq |-> 2]

-----------------------------------------------------------------------------
(* Queues that fill up and close, with consumers that keep polling. *)

\* The producers of the queue registered for protocol_id are gone: the queue is
\* closed; what it holds can still be consumed.
Close(protocol_id) ==
    /\ panic = NoPanic
    /\ Registered(apps, protocol_id)
    /\ LET c == Route(apps, protocol_id)
       IN  /\ ~ channels[c].closed
           /\ channels' = [channels EXCEPT ![c].closed = TRUE]
    /\ UNCHANGED <<env_vars, apps, interfaces, setup_vars, panic, runtime_vars, direct_build>>

\* A receiver has come to its end: its queue is closed and drained.
Finished(ch) == ch.closed /\ ch.queue = <<>>

\* The end of a source that ends with the first of its receivers.
SourceFinished_AnyReceiver(source) ==
    \E k \in 1..Len(source.receivers) : Finished(channels[source.receivers[k]])

\* A source has come to its end when every one of its receivers has.
SourceFinished(source) ==
    \A k \in 1..Len(source.receivers) : Finished(channels[source.receivers[k]])

\* A poll that finds the source finished signals end-of-stream.
EndOfStream(l) ==
    /\ panic = NoPanic
    /\ IsSome(interfaces[l].result)
    /\ ~ ended[l]
    /\ SourceFinished(Unwrap(interfaces[l].result).network_events.network_source)
    /\ ended' = [ended EXCEPT ![l] = TRUE]
    /\ UNCHANGED <<env_vars, wiring_vars, setup_vars, panic, pushed, observed, last_send,
                   outbound, direct_build>>

InitQueue == InitWith(RunConfigs, {1}, {"block", "drop_oldest"})

\* Two applications of one protocol each, wired once at start-up.
QueueApps == {"mempool", "storage_service"}

QueueProtocols == {"MempoolDirectSend", "StorageServiceRpc"}

NextQueue ==
    \/ (~ interfaces["mempool"].called /\ mempool_network_connections)
    \/ (~ interfaces["storage_service"].called /\ storage_service_network_connections)
    \/ \E protocol_id \in QueueProtocols : Push(protocol_id)
    \/ \E protocol_id \in QueueProtocols : Close(protocol_id)
    \/ \E l \in QueueApps : Poll(l)
    \/ \E l \in QueueApps : EndOfStream(l)

\* Every application keeps polling its NetworkEvents.
QueueFairness ==
    \A l \in QueueApps : WF_vars(Poll(l)) /\ WF_vars(EndOfStream(l))

SpecQueue == InitQueue /\ [][NextQueue]_vars /\ QueueFairness

\* An application of one protocol next to one built directly with a direct-send
\* and a request/response protocol, whose source merges two receivers.
StreamDirectSend == <<"ConsensusDirectSendBcs">>

StreamRpc == <<"ConsensusRpcBcs">>

StreamApps == {"mempool", "custom"}

StreamProtocols == {"MempoolDirectSend"} \cup Range(StreamDirectSend) \cup Range(StreamRpc)

NextStream ==
    \/ (~ interfaces["mempool"].called /\ mempool_network_connections)
    \/ BuildDirectWith(StreamDirectSend, StreamRpc, MaxQueueSize)
    \/ \E protocol_id \in StreamProtocols : Push(protocol_id)
    \/ \E protocol_id \in StreamProtocols : Close(protocol_id)
    \/ \E l \in StreamApps : Poll(l)
    \/ \E l \in StreamApps : EndOfStream(l)

StreamFairness ==
    \A l \in StreamApps : WF_vars(Poll(l)) /\ WF_vars(EndOfStream(l))

SpecStream == InitQueue /\ [][NextStream]_vars /\ StreamFairness

-----------------------------------------------------------------------------
(* C11 *)

\* The queue registered for a protocol, and the messages pushed under it so far.
QueueOf(protocol_id) == channels[Route(apps, protocol_id)]

Message(protocol_id, n) == [protocol_id |-> protocol_id, seq |-> n]

PushedSoFar(protocol_id) == [n \in 1..pushed[protocol_id] |-> Message(protocol_id, n)]

\* No queue of a recipe holds more messages than the capacity its application is
\* configured with.
BoundedQueues ==
    \A i \in 1..Len(apps) :
        apps[i].counter_label \in Apps =>
            Len(channels[apps[i].sender].queue)
                <= node_config.max_network_channel_size[apps[i].counter_label]

\* The blocking policy on the mempool queue configured with capacity 2.
BlockingCapacityTwo ==
    /\ policy = "block"
    /\ node_config.max_network_channel_size["mempool"] = 2

\* The third push is through only after the consumer has taken a message, and is
\* possible as soon as it has.
ThirdPushWaits ==
    BlockingCapacityTwo =>
        /\ pushed["MempoolDirectSend"] = 3 => Len(observed["mempool"]) >= 1
        /\ (/\ Registered(apps, "MempoolDirectSend")
            /\ pushed["MempoolDirectSend"] = 2
            /\ TotalPushed < MaxPush
            /\ ~ QueueOf("MempoolDirectSend").closed)
               => (ENABLED Push("MempoolDirectSend") <=> Len(observed["mempool"]) >= 1)

\* Under the blocking policy what was consumed followed by what is queued is what
\* was pushed, in push order.
NoneLostOrDuplicated ==
    (policy = "block" /\ Registered(apps, "MempoolDirectSend")) =>
        observed["mempool"] \o QueueOf("MempoolDirectSend").queue
            = PushedSoFar("MempoolDirectSend")

ObservedABC ==
    /\ Len(observed["mempool"]) >= 3
    /\ SubSeq(observed["mempool"], 1, 3) = [n \in 1..3 |-> Message("MempoolDirectSend", n)]

\* C11: a queue never holds more than its configured capacity; under the blocking
\* policy with capacity 2 the third of three pushes waits for the consumer to
\* take a message and is then possible, nothing is lost or duplicated, and the
\* consumer eventually has A, B, C in that order.
C11_Backpressure ==
    /\ [](BoundedQueues /\ ThirdPushWaits /\ NoneLostOrDuplicated)
    /\ (BlockingCapacityTwo /\ pushed["MempoolDirectSend"] = 3) ~> ObservedABC

\* The consumer has A, B, C after the queue of capacity 2 was full.
C11_Witness ==
    /\ BlockingCapacityTwo
    /\ pushed["MempoolDirectSend"] = 3
    /\ ObservedABC
    /\ ~ QueueOf("MempoolDirectSend").closed

-----------------------------------------------------------------------------
(* C12 *)

\* An application of one protocol with that protocol.
SingleProtocolApps == {<<"mempool", "MempoolDirectSend">>, <<"storage_service", "StorageServiceRpc">>}

\* Whatever happened to the other queues, under the blocking policy what the
\* application consumed followed by what its queue holds is what was pushed
\* under its protocol, in push order.
DeliveredInOrder(l, protocol_id) ==
    (policy = "block" /\ Registered(apps, protocol_id)) =>
        observed[l] \o QueueOf(protocol_id).queue = PushedSoFar(protocol_id)

\* With the other application's queue closed, a push onto an open queue with room
\* is possible as before.
PushAfterOtherClosed(protocol_id, other) ==
    (/\ Registered(apps, protocol_id)
     /\ Registered(apps, other)
     /\ QueueOf(other).closed
     /\ ~ QueueOf(protocol_id).closed
     /\ CanPush(QueueOf(protocol_id))
     /\ TotalPushed < MaxPush) => ENABLED Push(protocol_id)

\* C12: of two applications with one protocol each, closing the queue of one
\* leaves the other as it was: pushes onto the other's queue stay possible and
\* every message pushed onto it, before or after the close, is delivered to it
\* in push order.
C12_Isolation ==
    /\ [](\A a \in SingleProtocolApps : DeliveredInOrder(a[1], a[2]))
    /\ [](\A a, b \in SingleProtocolApps : a # b => PushAfterOtherClosed(a[2], b[2]))
    /\ \A a \in SingleProtocolApps : \A n \in 1..MaxPush :
           (policy = "block" /\ pushed[a[2]] >= n) ~> (Len(observed[a[1]]) >= n)

\* The storage service queue was closed and its source has ended; mempool has
\* received both of its messages.
C12_Witness ==
    /\ policy = "block"
    /\ Registered(apps, "StorageServiceRpc")
    /\ QueueOf("StorageServiceRpc").closed
    /\ ended["storage_service"]
    /\ observed["storage_service"] = <<Message("StorageServiceRpc", 1)>>
    /\ observed["mempool"] = <<Message("MempoolDirectSend", 1), Message("MempoolDirectSend", 2)>>
    /\ ~ QueueOf("MempoolDirectSend").closed

-----------------------------------------------------------------------------
(* C13 *)

Built(l) == IsSome(interfaces[l].result)

SourceOf(l) == Unwrap(interfaces[l].result).network_events.network_source

\* Every queue under the application's declared protocols has lost its producers.
AllClosed(l) == \A p \in DeclaredProtocols(l) : QueueOf(p).closed

\* No queue under the application's declared protocols holds a message.
Drained(l) == \A p \in DeclaredProtocols(l) : QueueOf(p).queue = <<>>

\* What the application consumed under one protocol, in consumption order.
ObservedUnder(l, protocol_id) ==
    SelectSeq(observed[l], LAMBDA m : m.protocol_id = protocol_id)

\* The source ended only with every queue closed and empty, and under the
\* blocking policy everything pushed was consumed before, per protocol in order.
EndsOnlyAfterAllClosed(l) ==
    ended[l] =>
        /\ Built(l)
        /\ AllClosed(l)
        /\ Drained(l)
        /\ policy = "block" =>
               \A p \in DeclaredProtocols(l) : ObservedUnder(l, p) = PushedSoFar(p)

\* With a queue open or non-empty a poll yields a message (some queue holds one)
\* or stays suspended (none does); it does not signal the end.
YieldsOrSuspends(l) ==
    (Built(l) /\ ~ (AllClosed(l) /\ Drained(l))) =>
        /\ ~ ENABLED EndOfStream(l)
        /\ ENABLED Poll(l) <=> ~ Drained(l)

\* A multi-receiver source with a protocol still open has not ended.
MultiOutlivesOneClose(l) ==
    (Built(l) /\ Cardinality(DeclaredProtocols(l)) >= 2) =>
        /\ SourceOf(l).kind = "multi"
        /\ (\E p \in DeclaredProtocols(l) : ~ QueueOf(p).closed) => ~ ended[l]

\* C13: a message source signals end-of-stream only after the producers of all
\* its queues have closed; with a queue open or non-empty a poll yields or stays
\* suspended; a multi-receiver source does not end because one protocol closed;
\* once all have closed, polling delivers what was queued and then ends.
C13_EndOfStream ==
    /\ [](\A l \in StreamApps :
              EndsOnlyAfterAllClosed(l) /\ YieldsOrSuspends(l) /\ MultiOutlivesOneClose(l))
    /\ \A l \in StreamApps : (Built(l) /\ AllClosed(l)) ~> (ended[l] /\ Drained(l))

\* The two-protocol source has ended after delivering a message of each protocol.
C13_Witness ==
    /\ policy = "block"
    /\ ended["custom"]
    /\ SourceOf("custom").kind = "multi"
    /\ \A p \in DeclaredProtocols("custom") : Len(ObservedUnder("custom", p)) >= 1
    /\ Built("mempool")
    /\ ~ ended["mempool"]

-----------------------------------------------------------------------------
(* C15 *)

\* The position of a transition of network i in the log of setup_networks.
LogPositions(step, i) == {k \in 1..Len(setup_log) : setup_log[k] = <<step, i>>}

LogPosition(step, i) == CHOOSE k \in LogPositions(step, i) : TRUE

\* Network i took each transition once, in the order RuntimeCreated,
\* HandshakeBuilt, Started.
TransitionsInOrder(i) ==
    /\ \A step \in {"RuntimeCreated", "HandshakeBuilt", "Started"} :
           Cardinality(LogPositions(step, i)) = 1
    /\ LogPosition("RuntimeCreated", i) < LogPosition("HandshakeBuilt", i)
    /\ LogPosition("HandshakeBuilt", i) < LogPosition("Started", i)

\* The builder at index i is the one of the i-th configured network, bound to the
\* shared registry and connection table, created on and started with the handle
\* of the runtime at the same index.
BuilderOnOwnRuntime(i) ==
    /\ networks[i].network_config = extract_network_configs(node_config)[i]
    /\ network_runtimes[i] = create_network_runtime(networks[i].network_config)
    /\ networks[i].peers_and_metadata = peers_and_metadata
    /\ networks[i].peer_senders = peer_senders
    /\ networks[i].created_on = i
    /\ networks[i].started_on = i
    /\ networks[i].state = "Started"

\* C15: when setup_networks has returned, every configured network has gone
\* through RuntimeCreated, HandshakeBuilt and Started in that order and is
\* Started; its builder is bound to the shared PeersAndMetadata and
\* OutboundPeerConnections and was started with the handle of its own runtime;
\* the result holds one runtime and one builder per configured network at
\* matching indexes. Before the return no network has left Unconfigured.
C15_NetworkLifecycle ==
    /\ pc = "start" => (network_runtimes = <<>> /\ networks = <<>> /\ setup_log = <<>>)
    /\ pc = "networks_started" =>
           /\ Len(network_runtimes) = Len(extract_network_configs(node_config))
           /\ Len(networks) = Len(extract_network_configs(node_config))
           /\ Len(setup_log) = 3 * Len(networks)
           /\ \A i \in 1..Len(networks) : TransitionsInOrder(i) /\ BuilderOnOwnRuntime(i)

\* setup_networks has returned for two full node networks and a validator
\* network.
C15_Witness ==
    /\ pc = "networks_started"
    /\ Len(networks) = 3
    /\ networks[3].network_config.network_id = "Validator"
    /\ networks[1].network_config.network_id # networks[2].network_config.network_id

-----------------------------------------------------------------------------
(* C16 *)

\* The collector entries made under a counter label, in collector order.
EntriesOf(l) == SelectSeq(apps, LAMBDA e : e.counter_label = l)

\* The build for l made one entry and one receiver per protocol of the list, in
\* list order, and its source is made of those receivers and no other queue's:
\* the single form for one protocol, the multi form for two or more.
BuiltPerProtocol(l, protocols) ==
    LET entries == EntriesOf(l)
        source  == SourceOf(l)
    IN  /\ [k \in 1..Len(entries) |-> entries[k].protocol_id] = protocols
        /\ [k \in 1..Len(entries) |-> entries[k].sender] = source.receivers
        /\ NoRepeat(source.receivers)
        /\ \A i \in 1..Len(apps) :
               apps[i].counter_label # l => apps[i].sender \notin Range(source.receivers)
        /\ Len(protocols) >= 1
        /\ source.kind = (IF Len(protocols) = 1 THEN "single" ELSE "multi")

\* The entries of the direct build follow the collector it was handed, direct-send
\* protocols first.
DirectBuildAppended ==
    LET b == Unwrap(direct_build)
        protocols == b.direct_send_protocols \o b.rpc_protocols
        base == Len(b.apps)
    IN  /\ SubSeq(apps, 1, base) = b.apps
        /\ Len(apps) >= base + Len(protocols)
        /\ \A k \in 1..Len(protocols) :
               /\ apps[base + k].protocol_id = protocols[k]
               /\ apps[base + k].counter_label = "custom"
        /\ BuiltPerProtocol("custom", protocols)

\* A step that changes the collector without a panic is the build of one
\* interface, and appends as many entries as its two protocol lists hold.
GrowsByProtocolCount ==
    (panic' = NoPanic /\ apps' # apps) =>
        \E l \in Labels :
            /\ ~ IsSome(interfaces[l].result)
            /\ IsSome(interfaces'[l].result)
            /\ LET client == Unwrap(interfaces'[l].result).network_client
               IN  Len(apps') = Len(apps)
                                  + Len(client.direct_send_protocols_and_preferences)
                                  + Len(client.rpc_protocols_and_preferences)
            /\ SubSeq(apps', 1, Len(apps)) = apps

\* C16: a build that returns has made one ApplicationConnections and one receiver
\* per declared protocol, direct-send protocols first and then request/response
\* in list order, added each to the collector, and put all and only those
\* receivers into one source, single for one protocol and multi for two or more;
\* the collector grew by the number of protocols in the two lists.
C16_OneConnectionPerProtocol ==
    /\ []((IsSome(direct_build) /\ Built("custom")) => DirectBuildAppended)
    /\ [](\A l \in Apps : Built(l) =>
              LET client == Unwrap(interfaces[l].result).network_client
              IN  BuiltPerProtocol(l, client.direct_send_protocols_and_preferences
                                          \o client.rpc_protocols_and_preferences))
    /\ [][GrowsByProtocolCount]_vars

\* A direct build of one direct-send and one request/response protocol has
\* returned a multi source after mempool got its single source.
C16_Witness ==
    /\ IsSome(direct_build)
    /\ Built("custom")
    /\ Len(Unwrap(direct_build).direct_send_protocols) = 1
    /\ Len(Unwrap(direct_build).rpc_protocols) = 1
    /\ Len(Unwrap(direct_build).apps) >= 1
    /\ SourceOf("custom").kind = "multi"
    /\ Built("mempool")
    /\ SourceOf("mempool").kind = "single"

-----------------------------------------------------------------------------
(* C17 *)

\* The ids of the networks setup_networks has started, in the order of its result.
StartedNetworkIds ==
    [i \in 1..Len(networks) |-> networks[i].network_config.network_id]

\* C17: on every node configuration on which setup_networks does not abort,
\* extract_network_configs lists the networks of the ids extract_network_ids
\* returns, in the same order, and once setup_networks has returned the networks
\* started are those: each is Started, its id is registered in the
\* PeersAndMetadata of create_peers_and_metadata, every Client built has a sender
\* for it, and no Client has a sender for any other network.
C17_StartedNetworksAreTheExtractedIds ==
    /\ ~ ExtractNetworkConfigsPanics(node_config) =>
           LET network_configs == extract_network_configs(node_config)
           IN  [i \in 1..Len(network_configs) |-> network_configs[i].network_id]
                   = extract_network_ids(node_config)
    /\ pc = "networks_started" =>
           /\ StartedNetworkIds = extract_network_ids(node_config)
           /\ \A i \in 1..Len(networks) :
                  /\ networks[i].state = "Started"
                  /\ StartedNetworkIds[i] \in create_peers_and_metadata(node_config).network_ids
                  /\ networks[i].peers_and_metadata = create_peers_and_metadata(node_config)
           /\ \A l \in Labels :
                  Built(l) =>
                      DOMAIN Unwrap(interfaces[l].result).network_client.network_senders
                          = Range(StartedNetworkIds)

\* setup_networks has returned for a validator network behind a full node network
\* of another id, with the Clients of consensus and mempool built.
C17_Witness ==
    /\ pc = "networks_started"
    /\ IsSome(node_config.validator_network)
    /\ Len(node_config.full_node_networks) >= 1
    /\ StartedNetworkIds[1] # StartedNetworkIds[Len(networks)]
    /\ Built("consensus")
    /\ Built("mempool")

====
